---- MODULE Spec2Model ----
(***************************************************************************)
(* jupyterlab-sharedb: the three observable primitives (ShareValue,        *)
(* ShareString, ShareList) bound to paths of one ShareDB document.         *)
(*                                                                         *)
(* JSON values are tagged records [t, v]; a path is a sequence of tagged   *)
(* keys, so that a string key never equals an integer key (JS ===).        *)
(* Strings are sequences of one-character strings, so that slice, length   *)
(* and insertion are computed as the code computes them.                   *)
(***************************************************************************)
EXTENDS Integers, Sequences, FiniteSets, TLC

\* Longest string and longest list the document may hold.
MaxLen == 2

(***************************************************************************)
(* JSON values                                                             *)
(***************************************************************************)
Undef == [t |-> "undef", v |-> 0]
Null == [t |-> "null", v |-> 0]
Num(n) == [t |-> "num", v |-> n]
Str(s) == [t |-> "str", v |-> s]
Arr(a) == [t |-> "arr", v |-> a]
Obj(f) == [t |-> "obj", v |-> f]
EmptyObj == Obj([k \in {} |-> Undef])

\* JS truthiness, as used by `if (!current[component])`, `if (op.si)`.
Truthy(x) ==
  CASE x.t = "undef" -> FALSE
    [] x.t = "null" -> FALSE
    [] x.t = "num" -> x.v # 0
    [] x.t = "str" -> Len(x.v) > 0
    [] OTHER -> TRUE

\* JSONExt.deepEqual on the modelled values: structural equality.
deepEqual(first, second) == first = second

\* x.length of a string or an array.
Length(x) == IF x.t \in {"str", "arr"} THEN Len(x.v) ELSE 0

Min(a, b) == IF a < b THEN a ELSE b
Max(a, b) == IF a > b THEN a ELSE b

\* s.slice(start, end) for 0 <= start, 0 <= end (JS clamps both to the length).
Slice(s, start, end) == SubSeq(s, Min(start, Len(s)) + 1, Min(end, Len(s)))

\* a.splice(index, 0, item): JS clamps the index to the length.
SpliceIn(a, index, item) ==
  Slice(a, 0, index) \o <<item>> \o Slice(a, index, Len(a))

\* a.splice(index, 1): nothing is removed beyond the end.
SpliceOut(a, index) == Slice(a, 0, index) \o Slice(a, index + 1, Len(a))

(***************************************************************************)
(* Paths                                                                   *)
(***************************************************************************)
Key(s) == [k |-> "s", s |-> s, n |-> 0]
Idx(n) == [k |-> "n", s |-> "", n |-> n]
\* [...path, undefined]: the key computed from a length that is undefined
UndefKey == [k |-> "u", s |-> "", n |-> 0]

RECURSIVE isSubpathFrom(_, _, _)
isSubpathFrom(subpath, path, i) ==
  IF i > Len(subpath) THEN TRUE
  ELSE IF subpath[i] # path[i] THEN FALSE
  ELSE isSubpathFrom(subpath, path, i + 1)

\* isSubpath comparing the first key only.
isSubpath_FirstKey(subpath, path) ==
  IF Len(subpath) > Len(path) THEN FALSE
  ELSE Len(subpath) = 0 \/ subpath[1] = path[1]

isSubpath(subpath, path) ==
  IF Len(subpath) > Len(path) THEN FALSE
  ELSE isSubpathFrom(subpath, path, 1)

\* [...path, index]
WithIndex(path, index) == Append(path, Idx(index))

\* op.p.slice(-1).pop() and op.p.pop(): the last key as the number the
\* handlers compute with (undefined for an empty path, a string key kept
\* as a tagged value).
LastKey(p) ==
  IF Len(p) = 0 \/ p[Len(p)] = UndefKey THEN Undef
  ELSE IF p[Len(p)].k = "n" THEN Num(p[Len(p)].n)
  ELSE Str(<<p[Len(p)].s>>)

Front(p) == IF Len(p) = 0 THEN p ELSE SubSeq(p, 1, Len(p) - 1)

ValuePath == <<Key("v")>>
StringPath == <<Key("cell"), Key("source")>>
ListPath == <<Key("cells")>>

(***************************************************************************)
(* The shared document's data: current[component]                          *)
(***************************************************************************)
\* tree[key] in JS: undefined when absent.
Child(tree, key) ==
  IF tree.t = "obj" /\ key.k = "s" /\ key.s \in DOMAIN tree.v THEN tree.v[key.s]
  ELSE IF tree.t = "arr" /\ key.k = "n" /\ key.n + 1 \in DOMAIN tree.v
    THEN tree.v[key.n + 1]
  ELSE Undef

SetChild(tree, key, x) ==
  IF tree.t = "obj"
  THEN Obj([f \in DOMAIN tree.v \cup {key.s} |-> IF f = key.s THEN x ELSE tree.v[f]])
  ELSE Arr([tree.v EXCEPT ![key.n + 1] = x])

RECURSIVE GetAt(_, _)
GetAt(tree, path) ==
  IF Len(path) = 0 THEN tree
  ELSE GetAt(Child(tree, Head(path)), Tail(path))

(***************************************************************************)
(* Operations: {p, oi, od, si, sd, li, ld, lm}, absent fields undefined.   *)
(* `ref` names the array object that is the operation's path: "new" for an *)
(* array made for this operation (`[...this._path, index]`, `this.path`    *)
(* of a SharePrimitive, a remote operation off the wire), "_path" for the  *)
(* list's own `this._path` (`{p: this._path, oi: []}`), "currentPath" for  *)
(* the array of the list's _preparePath (`{p: currentPath, oi: {}}`).      *)
(***************************************************************************)
NoOp == [p |-> <<>>, oi |-> Undef, od |-> Undef, si |-> Undef, sd |-> Undef,
         li |-> Undef, ld |-> Undef, lm |-> Undef, ref |-> "new"]

(***************************************************************************)
(* ShareDB's json0 type: how the document applies one operation component  *)
(* to its data (doc.submitOp and remote operations alike).                 *)
(***************************************************************************)
Failed == [ok |-> FALSE, v |-> Undef]
Done(x) == [ok |-> TRUE, v |-> x]

\* The component applied to the container `elem` at its key `key`.
ApplyLeaf(elem, key, c) ==
  IF c.si # Undef \/ c.sd # Undef THEN
    \* text0: key is the offset into the string elem
    IF elem.t # "str" \/ key.k # "n" THEN Failed
    ELSE IF c.si # Undef THEN
      Done(Str(Slice(elem.v, 0, key.n) \o c.si.v \o Slice(elem.v, key.n, Len(elem.v))))
    ELSE IF Slice(elem.v, key.n, key.n + Len(c.sd.v)) # c.sd.v THEN Failed
    ELSE Done(Str(Slice(elem.v, 0, key.n)
                  \o Slice(elem.v, key.n + Len(c.sd.v), Len(elem.v))))
  ELSE IF c.li # Undef /\ c.ld # Undef THEN
    IF elem.t # "arr" \/ key.k # "n" \/ key.n >= Len(elem.v) THEN Failed
    ELSE Done(SetChild(elem, key, c.li))
  ELSE IF c.li # Undef THEN
    IF elem.t # "arr" \/ key.k # "n" THEN Failed
    ELSE Done(Arr(SpliceIn(elem.v, key.n, c.li)))
  ELSE IF c.ld # Undef THEN
    IF elem.t # "arr" \/ key.k # "n" THEN Failed
    ELSE Done(Arr(SpliceOut(elem.v, key.n)))
  ELSE IF c.lm # Undef THEN
    IF elem.t # "arr" \/ key.k # "n" \/ key.n >= Len(elem.v)
       \/ c.lm.v >= Len(elem.v) THEN Failed
    ELSE Done(Arr(SpliceIn(SpliceOut(elem.v, key.n), c.lm.v, elem.v[key.n + 1])))
  ELSE IF c.oi # Undef THEN
    IF elem.t # "obj" \/ key.k # "s" THEN Failed
    ELSE Done(SetChild(elem, key, c.oi))
  ELSE IF c.od # Undef THEN
    IF elem.t # "obj" \/ key.k # "s" THEN Failed
    ELSE Done(Obj([f \in DOMAIN elem.v \ {key.s} |-> elem.v[f]]))
  ELSE Failed

RECURSIVE ApplyAt(_, _, _)
ApplyAt(tree, path, c) ==
  IF Len(path) = 0 THEN (IF c.oi # Undef THEN Done(c.oi) ELSE Failed)
  ELSE IF Len(path) = 1 THEN ApplyLeaf(tree, path[1], c)
  ELSE IF Child(tree, Head(path)) = Undef THEN Failed
  ELSE LET r == ApplyAt(Child(tree, Head(path)), Tail(path), c)
       IN  IF r.ok THEN Done(SetChild(tree, Head(path), r.v)) ELSE Failed

Apply(tree, c) == ApplyAt(tree, c.p, c)

(***************************************************************************)
(* State                                                                   *)
(***************************************************************************)
VARIABLES
  data,        \* shareDoc.data: undefined until the document has loaded
  connState,   \* shareDoc.connection.state
  _val,        \* ShareValue._val: the private ObservableValue, or null
  _str,        \* ShareString._str: the private ObservableString, or null
  obsDisposed, \* which private observables have had dispose() called
  _isDisposed, \* ShareList._isDisposed
  _path,       \* ShareList._path: the array the list walks to its value
  last         \* what the last call did: its name, arguments, the reads
               \* before it, the operations it handed to submitOp, the
               \* batches dispatched, the events each primitive's observers
               \* received, the error it raised and what it returned

vars == <<data, connState, _val, _str, obsDisposed, _isDisposed, _path, last>>

Prims == {"Value", "String", "List"}

\* `this._val = null`
NullRef == [t |-> "nullref", v |-> 0]
\* new ObservableValue() / new ObservableString(), holding a value
Observable(x) == [t |-> "observable", v |-> x]

\* The document has data once it has loaded (doc.type is set with it).
loaded == data # Undef

(***************************************************************************)
(* The running call's context: the state it reads and changes, and what    *)
(* it has submitted, dispatched, emitted and raised so far.                *)
(***************************************************************************)
NoEvents == [q \in Prims |-> <<>>]

Ctx ==
  [data |-> data, connState |-> connState, val |-> _val, str |-> _str,
   obsDisposed |-> obsDisposed, isDisposed |-> _isDisposed, path |-> _path,
   submitted |-> <<>>, dispatched |-> <<>>, delivered |-> <<>>,
   changed |-> NoEvents, err |-> "none", ret |-> Undef]

\* this._changed.emit(args): the observers of a disposed list were
\* disconnected by Signal.clearData.
Emit(c, prim, args) ==
  IF prim = "List" /\ c.isDisposed THEN c
  ELSE [c EXCEPT !.changed[prim] = Append(@, args)]

Throw(c, what) == [c EXCEPT !.err = what]

(***************************************************************************)
(* Reads                                                                   *)
(***************************************************************************)
\* SharePrimitive.value: the document's current value at the path.
value(c, path) == GetAt(c.data, path)

\* ShareValue.get
ValueGet(c) == IF c.val # NullRef THEN c.val.v ELSE value(c, ValuePath)

\* ShareString.text (getter)
StringText(c) == IF c.str # NullRef THEN c.str.v ELSE value(c, StringPath)

\* ShareList.array
ListArray(c) == IF Truthy(c.data) THEN GetAt(c.data, c.path) ELSE Arr(<<>>)

\* ShareList.length: this.array.length, undefined unless the value that
\* the path leads to is an array (or a string)
HasLength(c) == ListArray(c).t \in {"str", "arr"}
ListLength(c) == Length(ListArray(c))

\* `return this.length`
LengthOf(c) == IF HasLength(c) THEN Num(ListLength(c)) ELSE Undef

\* [...this._path, this.length]
AtLength(c) ==
  IF HasLength(c) THEN WithIndex(c.path, ListLength(c)) ELSE Append(c.path, UndefKey)

Reads(c) == [Value |-> ValueGet(c), String |-> StringText(c), List |-> ListArray(c)]

(***************************************************************************)
(* The op handlers                                                         *)
(***************************************************************************)
Handled(c, ops) == [c |-> c, ops |-> ops]

\* ShareValue.onOp
ValueOnOp(c, ops, isLocal) ==
  IF Len(ops) = 0 THEN Handled(c, ops)
  ELSE IF Len(ops) > 1 THEN Handled(Throw(c, "Unexpected number of ops"), ops)
  ELSE LET op == ops[1] IN
    IF ~isSubpath(ValuePath, op.p) THEN Handled(c, ops)
    ELSE IF op.oi # Undef
      THEN Handled(Emit(c, "Value", [oldValue |-> op.od, newValue |-> op.oi]), ops)
    ELSE Handled(c, ops)

\* The end of a Text event taken to be its start.
PlusLength_Start(lastKey, x) == lastKey

\* last + op.si.length
PlusLength(lastKey, x) ==
  IF lastKey.t = "num" THEN Num(lastKey.v + Length(x)) ELSE Undef

\* ShareString.onOp without the check of the batch's length.
StringOnOp_NoLengthCheck(c, ops, isLocal) ==
  IF Len(ops) = 0 THEN Handled(c, ops)
  ELSE LET op == ops[1] IN
    IF ~isSubpath(StringPath, op.p) THEN Handled(c, ops)
    ELSE IF op.oi # Undef THEN
      Handled(Emit(c, "String", [type |-> "set", start |-> Num(0),
                                 end |-> Num(Length(op.oi)), value |-> op.oi]), ops)
    ELSE Handled(c, ops)

\* ShareString.onOp reading the index at op.p[1], the second key of the
\* path, where the code reads the last one.
StringOnOp_SecondKey(c, ops, isLocal) ==
  IF Len(ops) = 0 THEN Handled(c, ops)
  ELSE IF Len(ops) > 1 THEN Handled(Throw(c, "Unexpected number of ops"), ops)
  ELSE LET op == ops[1]
           lastKey == LastKey(SubSeq(op.p, 1, Min(2, Len(op.p)))) IN
    IF ~isSubpath(StringPath, op.p) THEN Handled(c, ops)
    ELSE IF op.oi # Undef THEN
      Handled(Emit(c, "String", [type |-> "set", start |-> Num(0),
                                 end |-> Num(Length(op.oi)), value |-> op.oi]), ops)
    ELSE IF Truthy(op.si) THEN
      Handled(Emit(c, "String", [type |-> "insert", start |-> lastKey,
                                 end |-> PlusLength(lastKey, op.si),
                                 value |-> op.si]), ops)
    ELSE IF Truthy(op.sd) THEN
      Handled(Emit(c, "String", [type |-> "remove", start |-> lastKey,
                                 end |-> PlusLength(lastKey, op.sd),
                                 value |-> op.sd]), ops)
    ELSE Handled(c, ops)

\* ShareString.onOp
StringOnOp(c, ops, isLocal) ==
  IF Len(ops) = 0 THEN Handled(c, ops)
  ELSE IF Len(ops) > 1 THEN Handled(Throw(c, "Unexpected number of ops"), ops)
  ELSE LET op == ops[1]
           lastKey == LastKey(op.p) IN
    IF ~isSubpath(StringPath, op.p) THEN Handled(c, ops)
    ELSE IF op.oi # Undef THEN
      Handled(Emit(c, "String", [type |-> "set", start |-> Num(0),
                                 end |-> Num(Length(op.oi)), value |-> op.oi]), ops)
    ELSE IF Truthy(op.si) THEN
      Handled(Emit(c, "String", [type |-> "insert", start |-> lastKey,
                                 end |-> PlusLength(lastKey, op.si),
                                 value |-> op.si]), ops)
    ELSE IF Truthy(op.sd) THEN
      Handled(Emit(c, "String", [type |-> "remove", start |-> lastKey,
                                 end |-> PlusLength(lastKey, op.sd),
                                 value |-> op.sd]), ops)
    ELSE Handled(c, ops)

\* What op.p.pop() does to the list: the array it shortens is the list's
\* own `this._path` when the operation was submitted with it as its path.
Pop(c, op) == IF op.ref = "_path" THEN [c EXCEPT !.path = Front(@)] ELSE c

\* this.array[index]
ListItem(c, index) ==
  IF index.t = "num" THEN Child(ListArray(c), Idx(index.v)) ELSE Undef

\* ShareList._onOp; op.p.pop() shortens the path of the operation itself
ListOnOp(c, ops, isLocal) ==
  IF Len(ops) = 0 THEN Handled(c, ops)
  ELSE IF Len(ops) > 1 THEN Handled(Throw(c, "Unexpected number of ops"), ops)
  ELSE LET op == ops[1]
           idx == LastKey(op.p)
           popped == <<[op EXCEPT !.p = Front(op.p)]>>
           c1 == Pop(c, op) IN
    IF ~isSubpath(c.path, op.p) THEN Handled(c, ops)
    ELSE IF op.li # Undef /\ op.ld # Undef THEN
      Handled(Emit(c1, "List", [type |-> "set", oldIndex |-> idx, newIndex |-> idx,
                               oldValues |-> <<op.ld>>, newValues |-> <<op.li>>]),
              popped)
    ELSE IF op.li # Undef THEN
      Handled(Emit(c1, "List", [type |-> "add", oldIndex |-> Num(-1), newIndex |-> idx,
                               oldValues |-> <<>>, newValues |-> <<op.li>>]),
              popped)
    ELSE IF op.ld # Undef THEN
      Handled(Emit(c1, "List", [type |-> "remove", oldIndex |-> idx,
                               newIndex |-> Num(-1),
                               oldValues |-> <<op.ld>>, newValues |-> <<>>]),
              popped)
    ELSE IF op.lm # Undef THEN
      Handled(Emit(c1, "List", [type |-> "move", oldIndex |-> idx, newIndex |-> op.lm,
                               oldValues |-> <<ListItem(c1, op.lm)>>,
                               newValues |-> <<ListItem(c1, op.lm)>>]),
              popped)
    ELSE Handled(c1, popped)

\* The handlers registered with shareDoc.on('op', ...), in the order the
\* primitives were constructed.
handlers == <<"Value", "String", "List">>

OnOp(prim, c, ops, isLocal) ==
  CASE prim = "Value" -> ValueOnOp(c, ops, isLocal)
    [] prim = "String" -> StringOnOp(c, ops, isLocal)
    [] prim = "List" -> ListOnOp(c, ops, isLocal)

\* shareDoc.emit('op', ops, isLocal): the handlers run in turn on the same
\* batch object; an error raised by one ends the dispatch.  `delivered`
\* keeps each batch as the handlers left it, which for a local operation
\* is the object the document holds to send.
RECURSIVE DispatchFrom(_, _, _, _)
DispatchFrom(c, ops, isLocal, i) ==
  IF i > Len(handlers) THEN [c EXCEPT !.delivered = Append(@, ops)]
  ELSE LET r == OnOp(handlers[i], c, ops, isLocal) IN
    IF r.c.err # "none" THEN r.c
    ELSE DispatchFrom(r.c, r.ops, isLocal, i + 1)

Dispatch(c, ops, isLocal) ==
  DispatchFrom([c EXCEPT !.dispatched = Append(@, ops)], ops, isLocal, 1)

\* shareDoc.submitOp(op): rejected while the document has no data; else
\* applied to the data at once and announced to the handlers as a local
\* batch of one.  An error raised earlier in the call has ended the call.
submitOp(c, op) ==
  IF c.err # "none" THEN c
  ELSE LET c1 == [c EXCEPT !.submitted = Append(@, op)] IN
    IF c.data = Undef THEN Throw(c1, "Document has not been created")
    ELSE LET r == Apply(c.data, op) IN
      IF ~r.ok THEN Throw(c1, "Invalid operation")
      ELSE Dispatch([c1 EXCEPT !.data = r.v], <<op>>, TRUE)

Return(c, x) == IF c.err # "none" THEN c ELSE [c EXCEPT !.ret = x]

(***************************************************************************)
(* ShareValue                                                              *)
(***************************************************************************)
\* ObservableValue.set and ShareValue._onChange, which re-emits its event
ObservableValueSet(c, x) ==
  IF deepEqual(c.val.v, x) THEN c
  ELSE Emit([c EXCEPT !.val = Observable(x)], "Value",
            [oldValue |-> c.val.v, newValue |-> x])

\* ShareValue.set
ValueSet(c, x) ==
  IF deepEqual(x, ValueGet(c)) THEN c
  ELSE IF c.val # NullRef THEN ObservableValueSet(c, x)
  ELSE submitOp(c, [NoOp EXCEPT !.p = ValuePath, !.oi = x])

\* ShareValue.copyToDoc copying the wrong way: the document's value.
ValueCopyToDoc_FromDoc(c) ==
  submitOp(c, [NoOp EXCEPT !.p = ValuePath, !.oi = value(c, ValuePath)])

\* ShareValue.copyToDoc
ValueCopyToDoc(c) == submitOp(c, [NoOp EXCEPT !.p = ValuePath, !.oi = c.val.v])

\* ShareValue.copyFromDoc
ValueCopyFromDoc(c) ==
  Emit(c, "Value", [oldValue |-> c.val.v, newValue |-> value(c, ValuePath)])

\* ShareValue's constructor: this.connected.then(...)
ValueConnected(c) ==
  [c EXCEPT !.obsDisposed = @ \cup {"Value"}, !.val = NullRef]

(***************************************************************************)
(* ShareString                                                             *)
(***************************************************************************)
\* ObservableString's text setter, insert and remove, with
\* ShareString._onChange re-emitting the event
ObservableStringSet(c, x) ==
  IF c.str.v = x THEN c
  ELSE Emit([c EXCEPT !.str = Observable(x)], "String",
            [type |-> "set", start |-> Num(0), end |-> Num(Length(x)), value |-> x])

ObservableStringInsert(c, index, text) ==
  Emit([c EXCEPT !.str = Observable(Str(Slice(c.str.v.v, 0, index) \o text.v
                                   \o Slice(c.str.v.v, index, Len(c.str.v.v))))],
       "String",
       [type |-> "insert", start |-> Num(index),
        end |-> Num(index + Length(text)), value |-> text])

ObservableStringRemove(c, start, end) ==
  Emit([c EXCEPT !.str = Observable(Str(Slice(c.str.v.v, 0, start)
                                   \o Slice(c.str.v.v, end, Len(c.str.v.v))))],
       "String",
       [type |-> "remove", start |-> Num(start), end |-> Num(end),
        value |-> Str(Slice(c.str.v.v, start, end))])

\* ShareString.text (setter)
StringSetText(c, x) ==
  IF Length(x) = Length(StringText(c)) /\ x = StringText(c) THEN c
  ELSE IF c.str # NullRef THEN ObservableStringSet(c, x)
  ELSE submitOp(c, [NoOp EXCEPT !.p = StringPath, !.oi = x])

\* ShareString.insert
StringInsert(c, index, text) ==
  IF c.str # NullRef THEN ObservableStringInsert(c, index, text)
  ELSE submitOp(c, [NoOp EXCEPT !.p = WithIndex(StringPath, index), !.si = text])

\* ShareString.remove
StringRemove(c, start, end) ==
  IF c.str # NullRef THEN ObservableStringRemove(c, start, end)
  ELSE submitOp(c, [NoOp EXCEPT !.p = WithIndex(StringPath, start),
                                !.sd = Str(Slice(StringText(c).v, start, end))])

\* ShareString.clear written as a reset of the private observable.
StringClear_Reset(c) == [c EXCEPT !.str = Observable(Str(<<>>))]

\* ShareString.clear
StringClear(c) == StringSetText(c, Str(<<>>))

\* ShareString.copyToDoc
StringCopyToDoc(c) == submitOp(c, [NoOp EXCEPT !.p = StringPath, !.oi = c.str.v])

\* ShareString.copyFromDoc
StringCopyFromDoc(c) ==
  Emit(c, "String", [type |-> "set", start |-> Num(0),
                     end |-> Num(Length(value(c, StringPath))),
                     value |-> value(c, StringPath)])

\* ShareString's constructor: this.connected.then(...)
StringConnected(c) ==
  [c EXCEPT !.obsDisposed = @ \cup {"String"}, !.str = NullRef]

(***************************************************************************)
(* ShareList                                                               *)
(***************************************************************************)
Connecting(c) == c.connState = "connecting"

LiOp(path, index, x) == [NoOp EXCEPT !.p = WithIndex(path, index), !.li = x]

\* ShareList.set without the test for an undefined value.
ListSet_NoUndefinedCheck(c, index, x) ==
  IF Connecting(c) THEN c
  ELSE LET oldValue == Child(ListArray(c), Idx(index)) IN
    IF deepEqual(oldValue, x) THEN c
    ELSE submitOp(c, [NoOp EXCEPT !.p = WithIndex(c.path, index),
                                  !.ld = oldValue, !.li = x])

\* ShareList.set written as a removal followed by an insertion.
ListSet_TwoOps(c, index, x) ==
  IF Connecting(c) THEN c
  ELSE LET oldValue == Child(ListArray(c), Idx(index)) IN
    IF x = Undef THEN Throw(c, "Cannot set an undefined item")
    ELSE IF deepEqual(oldValue, x) THEN c
    ELSE submitOp(submitOp(c, [NoOp EXCEPT !.p = WithIndex(c.path, index),
                                           !.ld = oldValue]),
                  LiOp(c.path, index, x))

\* ShareList.set
ListSet(c, index, x) ==
  IF Connecting(c) THEN c
  ELSE LET oldValue == Child(ListArray(c), Idx(index)) IN
    IF x = Undef THEN Throw(c, "Cannot set an undefined item")
    ELSE IF deepEqual(oldValue, x) THEN c
    ELSE submitOp(c, [NoOp EXCEPT !.p = WithIndex(c.path, index),
                                  !.ld = oldValue, !.li = x])

\* ShareList.push
ListPush(c, x) ==
  IF Connecting(c) THEN c
  ELSE Return(submitOp(c, [NoOp EXCEPT !.p = AtLength(c), !.li = x]),
              Num(ListLength(c) + 1))

\* ShareList.insert
ListInsert(c, index, x) ==
  IF Connecting(c) THEN c
  ELSE submitOp(c, LiOp(c.path, index, x))

\* ShareList.remove
ListRemove(c, index) ==
  IF Connecting(c) THEN c
  ELSE IF index < 0 \/ (HasLength(c) /\ index >= ListLength(c)) THEN Return(c, Undef)
  ELSE LET oldValue == Child(ListArray(c), Idx(index)) IN
    Return(submitOp(c, [NoOp EXCEPT !.p = WithIndex(c.path, index),
                                    !.ld = oldValue]),
           oldValue)

\* ArrayExt.findFirstIndex(this.array, item => itemCmp(item, value)): -1
\* when the array has no length
RECURSIVE FindFirstIndexFrom(_, _, _)
FindFirstIndexFrom(a, x, i) ==
  IF i > Len(a) THEN -1
  ELSE IF deepEqual(a[i], x) THEN i - 1
  ELSE FindFirstIndexFrom(a, x, i + 1)

\* ShareList.removeValue
ListRemoveValue(c, x) ==
  IF Connecting(c) THEN Return(c, Num(-1))
  ELSE LET index == IF HasLength(c) THEN FindFirstIndexFrom(ListArray(c).v, x, 1)
                    ELSE -1 IN
    Return(ListRemove(c, index), Num(index))

\* ShareList.clear: while (this.length) { this.remove(0); }
RECURSIVE ListClearLoop(_)
ListClearLoop(c) ==
  IF c.err # "none" \/ ListLength(c) = 0 THEN c
  ELSE ListClearLoop(ListRemove(c, 0))

ListClear(c) == IF Connecting(c) THEN c ELSE Return(ListClearLoop(c), Undef)

\* ShareList.move submitting a list-move where the code has an empty body.
ListMove_Submits(c, fromIndex, toIndex) ==
  IF Connecting(c) THEN c
  ELSE IF (HasLength(c) /\ ListLength(c) <= 1) \/ fromIndex = toIndex THEN c
  ELSE submitOp(c, [NoOp EXCEPT !.p = WithIndex(c.path, fromIndex),
                                !.lm = Num(toIndex)])

\* ShareList.move
ListMove(c, fromIndex, toIndex) ==
  IF Connecting(c) THEN c
  ELSE IF (HasLength(c) /\ ListLength(c) <= 1) \/ fromIndex = toIndex THEN c
  ELSE c

\* each(values, value => submitOp({p: [...path, idx++], li: value}))
RECURSIVE SubmitEach(_, _, _)
SubmitEach(c, idx, values) ==
  IF Len(values) = 0 THEN c
  ELSE SubmitEach(submitOp(c, LiOp(c.path, idx, Head(values))), idx + 1, Tail(values))

\* ShareList.pushAll
ListPushAll(c, values) ==
  IF Connecting(c) THEN Return(c, Num(0))
  ELSE IF ~HasLength(c) /\ Len(values) > 0
    THEN submitOp(c, [NoOp EXCEPT !.p = AtLength(c), !.li = Head(values)])
  ELSE LET c1 == SubmitEach(c, ListLength(c), values) IN
    Return(c1, LengthOf(c1))

\* ShareList.insertAll
ListInsertAll(c, index, values) ==
  IF Connecting(c) THEN c
  ELSE SubmitEach(c, index, values)

\* for (let i = startIndex; i < endIndex; i++) { this.remove(startIndex); }
RECURSIVE ListRemoveRangeLoop(_, _, _, _)
ListRemoveRangeLoop(c, i, startIndex, endIndex) ==
  IF c.err # "none" \/ ~(i < endIndex) THEN c
  ELSE ListRemoveRangeLoop(ListRemove(c, startIndex), i + 1, startIndex, endIndex)

\* ShareList.removeRange
ListRemoveRange(c, startIndex, endIndex) ==
  IF Connecting(c) THEN Return(c, Num(0))
  ELSE LET c1 == ListRemoveRangeLoop(c, startIndex, startIndex, endIndex) IN
    Return(c1, LengthOf(c1))

\* ShareList.dispose
ListDispose(c) ==
  IF c.isDisposed THEN c
  ELSE [c EXCEPT !.isDisposed = TRUE]

\* currentPath.push(component): the operations already submitted with the
\* array `ref` as their path get the key too.
Pushed(c, ref, key) ==
  [c EXCEPT !.delivered =
     [k \in DOMAIN c.delivered |->
        [n \in DOMAIN c.delivered[k] |->
           IF c.delivered[k][n].ref = ref /\ ref # "new"
           THEN [c.delivered[k][n] EXCEPT !.p = Append(@, key)]
           ELSE c.delivered[k][n]]]]

\* ShareList._preparePath (a path of one key has no container above it but
\* the root; of two keys, one).  `ref` names the one array currentPath that
\* every operation of the loop is given as its path.
RECURSIVE PreparePathFrom(_, _, _, _)
PreparePathFrom(c, path, i, ref) ==
  IF ~(i < Len(path)) THEN c
  ELSE LET currentPath == SubSeq(path, 1, i)
           c1 == Pushed(c, ref, path[i])
           present == Truthy(GetAt(c.data, currentPath)) IN
    PreparePathFrom(
      IF present THEN c1
      ELSE submitOp(c1, [NoOp EXCEPT !.p = currentPath, !.oi = EmptyObj, !.ref = ref]),
      path, i + 1, ref)

ListPreparePath(c) == PreparePathFrom(c, c.path, 1, "currentPath")

\* for (let component of this._path) { if (!current[component]) ... }
RECURSIVE PathExistsFrom(_, _, _)
PathExistsFrom(tree, path, i) ==
  IF i > Len(path) THEN TRUE
  ELSE IF ~Truthy(Child(tree, path[i])) THEN FALSE
  ELSE PathExistsFrom(Child(tree, path[i]), path, i + 1)

\* ShareList's constructor: the handler of the document's 'load'
ListOnLoad(c) ==
  LET c1 == ListPreparePath(c) IN
    IF PathExistsFrom(c1.data, c1.path, 1) THEN c1
    ELSE submitOp(c1, [NoOp EXCEPT !.p = c1.path, !.oi = Arr(<<>>), !.ref = "_path"])

(***************************************************************************)
(* SharePrimitive (./share): the base class of ShareValue and ShareString. *)
(* On the document's load it prepares the containers above the path, then  *)
(* copies the local value to the document when the path holds nothing, or  *)
(* announces the document's value when it does; then `connected` resolves. *)
(***************************************************************************)
PrimitiveOnLoad(c, prim) ==
  LET path == IF prim = "Value" THEN ValuePath ELSE StringPath
      c1 == PreparePathFrom(c, path, 1, "new") IN
    IF GetAt(c1.data, path) # Undef
    THEN (IF prim = "Value" THEN ValueCopyFromDoc(c1) ELSE StringCopyFromDoc(c1))
    ELSE (IF prim = "Value" THEN ValueCopyToDoc(c1) ELSE StringCopyToDoc(c1))

\* The 'load' handlers in registration order, then the `connected`
\* continuations (microtasks, run before any other event).
OnLoad(c) ==
  StringConnected(ValueConnected(
    ListOnLoad(PrimitiveOnLoad(PrimitiveOnLoad(c, "Value"), "String"))))

(***************************************************************************)
(* Inputs                                                                  *)
(***************************************************************************)
ConnStates == {"connecting", "connected", "disconnected"}
Scalars == {Num(1), Num(2)}
Texts == {Str(<<>>), Str(<<"a">>), Str(<<"a", "b">>)}
Inserts == {Str(<<>>), Str(<<"b">>)}
Items == {Str(<<"a">>), Str(<<"x">>)}
ItemLists == {<<>>, <<Str(<<"a">>)>>, <<Str(<<"a">>), Str(<<"x">>)>>}
Indexes == 0..MaxLen

\* What the document may hold when it loads: nothing, another client's
\* data at every path, or falsy values (0, "") at every path.
InitialDocs ==
  {EmptyObj,
   Obj([f \in {"v", "cell", "cells"} |->
          CASE f = "v" -> Num(2)
            [] f = "cell" -> Obj([g \in {"source"} |-> Str(<<"b">>)])
            [] f = "cells" -> Arr(<<Str(<<"x">>)>>)]),
   Obj([f \in {"v", "cell", "cells"} |->
          CASE f = "v" -> Num(0)
            [] f = "cell" -> Obj([g \in {"source"} |-> Str(<<>>)])
            [] f = "cells" -> Num(0)])}

\* The model's bound on the document and on the private string.
Bounded(c) ==
  /\ Length(GetAt(c.data, StringPath)) <= MaxLen
  /\ Length(GetAt(c.data, ListPath)) <= MaxLen
  /\ c.str # NullRef => Length(c.str.v) <= MaxLen

(***************************************************************************)
(* Actions: one per call                                                   *)
(***************************************************************************)
\* No call is running and the record of the last one has been read.
Idle ==
  [op |-> "idle", i |-> 0, j |-> 0, x |-> Undef,
   pre |-> [Value |-> Undef, String |-> Undef, List |-> Undef],
   doc |-> Undef, wasLoaded |-> FALSE, submitted |-> <<>>, dispatched |-> <<>>,
   delivered |-> <<>>, changed |-> NoEvents, err |-> "none", ret |-> Undef]

\* The call `name(i, j, x)` ran from the current state and ended in c.
Call(name, i, j, x, c) ==
  /\ last = Idle
  /\ data' = c.data
  /\ connState' = c.connState
  /\ _val' = c.val
  /\ _str' = c.str
  /\ obsDisposed' = c.obsDisposed
  /\ _isDisposed' = c.isDisposed
  /\ _path' = c.path
  /\ last' = [op |-> name, i |-> i, j |-> j, x |-> x, pre |-> Reads(Ctx),
              doc |-> data, wasLoaded |-> loaded,
              submitted |-> c.submitted, dispatched |-> c.dispatched,
              delivered |-> c.delivered, changed |-> c.changed,
              err |-> c.err, ret |-> c.ret]

\* A call of the model: one that ends within the model's bound.
Commit(name, i, j, x, c) == last = Idle /\ Bounded(c) /\ Call(name, i, j, x, c)

\* The call has returned (or raised) and its record is cleared; calls do
\* not overlap (single-threaded, run to completion).
Returned ==
  /\ last # Idle
  /\ last' = Idle
  /\ UNCHANGED <<data, connState, _val, _str, obsDisposed, _isDisposed, _path>>

Init ==
  /\ data = Undef
  /\ connState = "connecting"
  /\ _val = Observable(Null)
  /\ _str = Observable(Str(<<>>))
  /\ obsDisposed = {}
  /\ _isDisposed = FALSE
  /\ _path = ListPath
  /\ last = Idle

\* The connection changes state.
ConnectionState ==
  \E st \in ConnStates \ {connState} :
    Commit("connection", 0, 0, Str(<<st>>), [Ctx EXCEPT !.connState = st])

\* The document's snapshot arrives: 'load'.
Load ==
  /\ ~loaded
  /\ connState = "connected"
  /\ \E d \in InitialDocs : Commit("load", 0, 0, d, OnLoad([Ctx EXCEPT !.data = d]))

DoValueSet == \E x \in Scalars : Commit("Value.set", 0, 0, x, ValueSet(Ctx, x))
DoValueDispose == Commit("Value.dispose", 0, 0, Undef, Ctx)

DoStringSetText == \E x \in Texts : Commit("String.text", 0, 0, x, StringSetText(Ctx, x))
DoStringInsert ==
  \E index \in Indexes, x \in Inserts :
    Commit("String.insert", index, 0, x, StringInsert(Ctx, index, x))
DoStringRemove ==
  \E start \in Indexes, end \in Indexes :
    start <= end /\ Commit("String.remove", start, end, Undef, StringRemove(Ctx, start, end))
DoStringClear == Commit("String.clear", 0, 0, Undef, StringClear(Ctx))
DoStringDispose == Commit("String.dispose", 0, 0, Undef, Ctx)

DoListSet ==
  \E index \in Indexes, x \in Items \cup {Undef} :
    Commit("List.set", index, 0, x, ListSet(Ctx, index, x))
DoListPush == \E x \in Items : Commit("List.push", 0, 0, x, ListPush(Ctx, x))
DoListInsert ==
  \E index \in Indexes, x \in Items :
    Commit("List.insert", index, 0, x, ListInsert(Ctx, index, x))
DoListRemove ==
  \E index \in Indexes \cup {-1} : Commit("List.remove", index, 0, Undef, ListRemove(Ctx, index))
DoListRemoveValue ==
  \E x \in Items : Commit("List.removeValue", 0, 0, x, ListRemoveValue(Ctx, x))
DoListClear == Commit("List.clear", 0, 0, Undef, ListClear(Ctx))
DoListMove ==
  \E fromIndex \in Indexes, toIndex \in Indexes :
    Commit("List.move", fromIndex, toIndex, Undef, ListMove(Ctx, fromIndex, toIndex))
DoListPushAll ==
  \E values \in ItemLists : Commit("List.pushAll", 0, 0, Arr(values), ListPushAll(Ctx, values))
DoListInsertAll ==
  \E index \in Indexes, values \in ItemLists :
    Commit("List.insertAll", index, 0, Arr(values), ListInsertAll(Ctx, index, values))
DoListRemoveRange ==
  \E startIndex \in Indexes, endIndex \in Indexes :
    startIndex <= endIndex
    /\ Commit("List.removeRange", startIndex, endIndex, Undef,
              ListRemoveRange(Ctx, startIndex, endIndex))
DoListDispose == Commit("List.dispose", 0, 0, Undef, ListDispose(Ctx))

(***************************************************************************)
(* Operations arriving from the transport                                  *)
(***************************************************************************)
\* The operations another client may have made on the current data.
RemoteValueOps ==
  {[NoOp EXCEPT !.p = ValuePath, !.oi = x, !.od = GetAt(data, ValuePath)] : x \in Scalars}

RemoteStringOps ==
  {[NoOp EXCEPT !.p = StringPath, !.oi = x, !.od = GetAt(data, StringPath)] :
     x \in {Str(<<>>), Str(<<"a">>)}}
  \cup {[NoOp EXCEPT !.p = WithIndex(StringPath, i), !.si = x] :
          i \in Indexes, x \in Inserts}
  \cup {[NoOp EXCEPT !.p = WithIndex(StringPath, i),
                     !.sd = Str(Slice(GetAt(data, StringPath).v, i, i + 1))] :
          i \in {k \in Indexes : GetAt(data, StringPath).t = "str"}}
  \cup {[NoOp EXCEPT !.p = <<Key("cell")>>,
                     !.oi = Obj([g \in {"source"} |-> Str(<<"a">>)]),
                     !.od = GetAt(data, <<Key("cell")>>)]}

RemoteListOps ==
  LET a == GetAt(data, ListPath)
      n == Length(a) IN
  {[NoOp EXCEPT !.p = ListPath, !.oi = Arr(<<>>), !.od = a]}
  \cup {LiOp(ListPath, i, x) : i \in 0..n, x \in Items}
  \cup {[NoOp EXCEPT !.p = WithIndex(ListPath, i), !.ld = a.v[i + 1]] : i \in 0..(n - 1)}
  \cup {[NoOp EXCEPT !.p = WithIndex(ListPath, i), !.ld = a.v[i + 1], !.li = x] :
          i \in 0..(n - 1), x \in Items}
  \cup {[NoOp EXCEPT !.p = WithIndex(ListPath, i), !.lm = Num(j)] :
          i \in 0..(n - 1), j \in 0..(n - 1)}

RemoteOps == RemoteValueOps \cup RemoteStringOps \cup RemoteListOps

\* A remote operation: the document applies it to its data, then announces
\* it to the handlers as a batch of one, isLocal = false.
RemoteOp ==
  /\ loaded
  /\ connState = "connected"
  /\ \E op \in RemoteOps :
       LET r == Apply(data, op) IN
         /\ r.ok
         /\ Commit("remote", 0, 0, Undef, Dispatch([Ctx EXCEPT !.data = r.v], <<op>>, FALSE))

\* A raw batch of no operation, or of two, is announced to the handlers
\* (the data as the document left it).
RawBatches ==
  {<<>>}
  \cup {<<a, b>> : a \in RemoteValueOps,
                   b \in {LiOp(ListPath, 0, Str(<<"a">>)),
                          [NoOp EXCEPT !.p = <<Key("other")>>, !.oi = Num(1)]}}

RawBatch ==
  /\ loaded
  /\ \E ops \in RawBatches, isLocal \in BOOLEAN :
       Commit("batch", Len(ops), 0, Undef, Dispatch(Ctx, ops, isLocal))

Next ==
  \/ Returned
  \/ ConnectionState
  \/ Load
  \/ RemoteOp
  \/ RawBatch
  \/ DoValueSet
  \/ DoValueDispose
  \/ DoStringSetText
  \/ DoStringInsert
  \/ DoStringRemove
  \/ DoStringClear
  \/ DoStringDispose
  \/ DoListSet
  \/ DoListPush
  \/ DoListInsert
  \/ DoListRemove
  \/ DoListRemoveValue
  \/ DoListClear
  \/ DoListMove
  \/ DoListPushAll
  \/ DoListInsertAll
  \/ DoListRemoveRange
  \/ DoListDispose

Spec == Init /\ [][Next]_vars

(***************************************************************************)
(* The scenarios of the specification: a cell's source and a list of       *)
(* cells, with the texts and items the scenarios name                      *)
(***************************************************************************)
\* The longest text of the scenarios: "print(1)" and a newline.
ScenarioLen == 9

Print1 == Str(<<"p", "r", "i", "n", "t", "(", "1", ")">>)
Newline == Str(<<"\n">>)

ScenarioBounded(c) ==
  /\ Length(GetAt(c.data, StringPath)) <= ScenarioLen
  /\ Length(GetAt(c.data, ListPath)) <= MaxLen
  /\ c.str # NullRef => Length(c.str.v) <= ScenarioLen

ScenarioConnection ==
  \E st \in ConnStates \ {connState} :
    Call("connection", 0, 0, Str(<<st>>), [Ctx EXCEPT !.connState = st])

ScenarioLoad ==
  /\ last = Idle
  /\ ~loaded
  /\ connState = "connected"
  /\ \E d \in InitialDocs :
       LET c == OnLoad([Ctx EXCEPT !.data = d]) IN
         ScenarioBounded(c) /\ Call("load", 0, 0, d, c)

\* insert(index, text) on the Text
ScenarioInsert ==
  /\ last = Idle
  /\ \E index \in {0, 8}, x \in {Print1, Newline} :
       LET c == StringInsert(Ctx, index, x) IN
         ScenarioBounded(c) /\ Call("String.insert", index, 0, x, c)

\* push(value) on the List
ScenarioPush ==
  /\ last = Idle
  /\ \E x \in {Str(<<"a">>), Str(<<"b">>)} :
       LET c == ListPush(Ctx, x) IN
         ScenarioBounded(c) /\ Call("List.push", 0, 0, x, c)

\* The remote operations of the scenarios: a newline inserted in the text,
\* and another client's operations on the list.
ScenarioRemoteOps ==
  {[NoOp EXCEPT !.p = WithIndex(StringPath, i), !.si = Newline] : i \in {0, 8}}
  \cup RemoteListOps

ScenarioRemote ==
  /\ last = Idle
  /\ loaded
  /\ connState = "connected"
  /\ \E op \in ScenarioRemoteOps :
       LET r == Apply(data, op)
           c == Dispatch([Ctx EXCEPT !.data = r.v], <<op>>, FALSE) IN
         r.ok /\ ScenarioBounded(c) /\ Call("remote", 0, 0, Undef, c)

ScenarioNext ==
  \/ Returned
  \/ ScenarioConnection
  \/ ScenarioLoad
  \/ ScenarioInsert
  \/ ScenarioPush
  \/ ScenarioRemote

Scenario == Init /\ [][ScenarioNext]_vars

(***************************************************************************)
(* Vocabulary of the properties                                            *)
(***************************************************************************)
PathOf(prim) ==
  CASE prim = "Value" -> ValuePath
    [] prim = "String" -> StringPath
    [] prim = "List" -> ListPath

\* Two paths are related when one is a prefix of the other.
Related(p, q) == isSubpath(p, q) \/ isSubpath(q, p)

\* The primitive a call was made on ("" for the document's own events).
PrimOf(name) ==
  CASE name \in {"Value.set", "Value.dispose"} -> "Value"
    [] name \in {"String.text", "String.insert", "String.remove", "String.clear",
                 "String.dispose"} -> "String"
    [] name \in {"List.set", "List.push", "List.insert", "List.remove",
                 "List.removeValue", "List.clear", "List.move", "List.pushAll",
                 "List.insertAll", "List.removeRange", "List.dispose"} -> "List"
    [] OTHER -> ""

\* The observers of the primitive are still connected to its signal.
Observed(prim) == prim = "List" => ~_isDisposed

\* The last call dispatched exactly one batch, of exactly one operation.
OneOpDispatched == Len(last.dispatched) = 1 /\ Len(last.dispatched[1]) = 1

(***************************************************************************)
(* C1: for every bound primitive and every dispatched batch of exactly one *)
(* operation whose path is related to the primitive's path (one a prefix   *)
(* of the other, or equal), the primitive's observers receive exactly one  *)
(* change event for that batch.                                            *)
(***************************************************************************)
C1_RelatedOpOneEvent ==
  (last.wasLoaded /\ OneOpDispatched) =>
    \A prim \in Prims :
      (Observed(prim) /\ Related(PathOf(prim), last.dispatched[1][1].p))
        => Len(last.changed[prim]) = 1

(***************************************************************************)
(* C3: for every primitive kind, a dispatched raw batch of more than one   *)
(* operation raises an error and no change event reaches any observer,     *)
(* whatever the paths of its operations.                                   *)
(***************************************************************************)
C3_BatchOfTwoRaises ==
  /\ (last.op = "batch" /\ last.i > 1) =>
       /\ last.err = "Unexpected number of ops"
       /\ last.changed = NoEvents
  /\ (last = Idle /\ loaded) =>
       \A prim \in Prims, ops \in RawBatches, isLocal \in BOOLEAN :
         Len(ops) > 1 =>
           /\ OnOp(prim, Ctx, ops, isLocal).c.err = "Unexpected number of ops"
           /\ OnOp(prim, Ctx, ops, isLocal).c.changed = NoEvents

C3_Witness ==
  /\ last.op = "batch"
  /\ last.i = 2
  /\ last.err = "Unexpected number of ops"
  /\ Related(ListPath, last.dispatched[1][2].p)

(***************************************************************************)
(* Which calls were skipped, rejected or dropped                           *)
(***************************************************************************)
\* The no-op guard applied: the value written equals the content read.
SkippedByGuard ==
  \/ last.op = "Value.set" /\ last.x = last.pre.Value
  \/ last.op = "String.text" /\ last.x = last.pre.String
  \/ last.op = "List.set" /\ last.x = Child(last.pre.List, Idx(last.i))
  \/ last.op = "List.move" /\ (Length(last.pre.List) <= 1 \/ last.i = last.j)

\* The call was refused: an undefined item, or an index that is not found.
Rejected ==
  \/ last.op = "List.set" /\ last.x = Undef
  \/ last.op = "List.remove" /\ (last.i < 0 \/ last.i >= Length(last.pre.List))

\* Nothing was asked for: no value passed, an empty range.
Vacuous ==
  \/ last.op \in {"List.pushAll", "List.insertAll"} /\ Length(last.x) = 0
  \/ last.op = "List.removeRange" /\ last.i = last.j

\* A list write while the transport is connecting is dropped.
Dropped == PrimOf(last.op) = "List" /\ connState = "connecting"

\* The document refused an operation of the call, which ended there.
Refused == last.err = "Invalid operation"

SingleWrites ==
  {"Value.set", "String.text", "String.insert", "String.remove",
   "List.set", "List.insert", "List.remove"}

BulkWrites == {"List.pushAll", "List.insertAll", "List.removeRange", "List.move"}

BoundWrite ==
  /\ last.wasLoaded
  /\ last.op \in SingleWrites \cup BulkWrites
  /\ ~SkippedByGuard /\ ~Rejected /\ ~Dropped

C4_Handoff ==
  /\ (last.op = "load" /\ last.x = EmptyObj) =>
       /\ GetAt(data, ValuePath) = last.pre.Value
       /\ GetAt(data, StringPath) = last.pre.String
       /\ obsDisposed = {"Value", "String"}
       /\ _val = NullRef /\ _str = NullRef
  /\ loaded =>
       /\ ValueGet(Ctx) = GetAt(data, ValuePath)
       /\ StringText(Ctx) = GetAt(data, StringPath)

C4_Witness ==
  /\ last.op = "load" /\ last.x = EmptyObj
  /\ last.pre.Value = Num(1)
  /\ last.pre.String = Str(<<"a", "b">>)
  /\ ValueGet(Ctx) = Num(1)
  /\ StringText(Ctx) = Str(<<"a", "b">>)

(***************************************************************************)
(* C5: the Local to Bound transition is one-way.  Once a Value or Text     *)
(* has set its private observable to null, no call and no event of the     *)
(* document or the connection makes it non-null again.                     *)
(***************************************************************************)
C5_OneWay ==
  [][(_val = NullRef => _val' = NullRef) /\ (_str = NullRef => _str' = NullRef)]_vars

C5_Witness ==
  /\ _val = NullRef /\ _str = NullRef
  /\ last.wasLoaded
  /\ last.op = "String.clear"
  /\ Len(last.submitted) = 1

(***************************************************************************)
(* C6: while a primitive of any kind has not received the document's load, *)
(* no call on it submits an operation to the shared document.              *)
(***************************************************************************)
C6_LocalNeverSubmits ==
  (~last.wasLoaded /\ PrimOf(last.op) \in Prims) => last.submitted = <<>>

(***************************************************************************)
(* C7: a write on a bound primitive that submits an operation produces     *)
(* exactly one change event at the primitive's observers: one when the     *)
(* document announces the operation locally, and none when the transport   *)
(* loops the same operation back (isLocal = false).  Stated for the List,  *)
(* whose registration with the document is ShareList's own.                *)
(***************************************************************************)
C7_OneEventNoEcho ==
  (/\ last.wasLoaded /\ PrimOf(last.op) = "List"
   /\ Len(last.submitted) = 1 /\ last.err = "none"
   /\ Observed("List")) =>
    LET echo == OnOp("List", Ctx, <<last.submitted[1]>>, FALSE).c IN
      Len(last.changed.List) + Len(echo.changed.List) = 1

(***************************************************************************)
(* C8: for each bound primitive, the change events its observers see       *)
(* during a call are, one for one and in the same order, the operations    *)
(* dispatched under the primitive's path: the k-th event carries the       *)
(* values of the k-th such operation, none dropped, merged or reordered.   *)
(***************************************************************************)
\* The event was translated from the operation.
Carries(prim, ev, op) ==
  CASE prim = "Value" -> ev.newValue = op.oi
    [] prim = "String" -> ev.value \in {op.oi, op.si, op.sd} \ {Undef}
    [] prim = "List" ->
         \/ ev.type = "move" /\ op.lm # Undef
         \/ /\ ev.type # "move"
            /\ ev.newValues = (IF op.li # Undef THEN <<op.li>> ELSE <<>>)
            /\ ev.oldValues = (IF op.ld # Undef THEN <<op.ld>> ELSE <<>>)

C8_EventsFollowOps ==
  last.wasLoaded =>
    \A prim \in Prims :
      Observed(prim) =>
        LET Matches(b) == Len(b) = 1 /\ isSubpath(PathOf(prim), b[1].p)
            m == SelectSeq(last.dispatched, Matches) IN
          /\ Len(last.changed[prim]) = Len(m)
          /\ \A k \in 1..Len(m) : Carries(prim, last.changed[prim][k], m[k][1])

(***************************************************************************)
(* C9: a read made as soon as a write call has returned reflects the       *)
(* write, in either phase: Value get returns the value set, Text text has  *)
(* the insertion or removal, List array has the set, push, insert or       *)
(* remove.  Left aside: a write the list refuses, a set outside the list,  *)
(* and a list write made while the transport is connecting.                *)
(***************************************************************************)
\* The sequence s with the elements of xs put in at the 0-based index i,
\* or at its end.
WithItemsAt(s, i, xs) ==
  SubSeq(s, 1, Min(i, Len(s))) \o xs \o SubSeq(s, Min(i, Len(s)) + 1, Len(s))

\* The sequence s without its elements of the 0-based indexes i..(j - 1).
WithoutRange(s, i, j) ==
  SubSeq(s, 1, Min(i, Len(s))) \o SubSeq(s, Min(j, Len(s)) + 1, Len(s))

C9_ReadReflectsWrite ==
  /\ last.op = "Value.set" => ValueGet(Ctx) = last.x
  /\ last.op = "String.text" => StringText(Ctx) = last.x
  /\ last.op = "String.insert" =>
       StringText(Ctx) = Str(WithItemsAt(last.pre.String.v, last.i, last.x.v))
  /\ last.op = "String.remove" =>
       StringText(Ctx) = Str(WithoutRange(last.pre.String.v, last.i, last.j))
  /\ (PrimOf(last.op) = "List" /\ ~Rejected /\ ~Dropped) =>
       /\ last.op = "List.push" =>
            ListArray(Ctx) = Arr(Append(last.pre.List.v, last.x))
       /\ last.op = "List.insert" =>
            ListArray(Ctx) = Arr(WithItemsAt(last.pre.List.v, last.i, <<last.x>>))
       /\ last.op = "List.remove" =>
            ListArray(Ctx) = Arr(WithoutRange(last.pre.List.v, last.i, last.i + 1))
       /\ (last.op = "List.set" /\ last.i < Length(last.pre.List)) =>
            ListArray(Ctx) = Arr([last.pre.List.v EXCEPT ![last.i + 1] = last.x])

(***************************************************************************)
(* C10: a write of a value deep-equal to the current content submits no    *)
(* operation and emits no event, so that write(x) made again as soon as    *)
(* write(x) has returned adds nothing: the two calls submit at most one    *)
(* operation in total (Value set, Text text setter, List set at an index). *)
(***************************************************************************)
C10_SecondWriteSubmitsNothing ==
  last.err = "none" =>
    /\ last.op = "Value.set" =>
         /\ Len(last.submitted) + Len(ValueSet(Ctx, last.x).submitted) <= 1
         /\ ValueSet(Ctx, last.x).changed = NoEvents
    /\ last.op = "String.text" =>
         /\ Len(last.submitted) + Len(StringSetText(Ctx, last.x).submitted) <= 1
         /\ StringSetText(Ctx, last.x).changed = NoEvents
    /\ last.op = "List.set" =>
         /\ Len(last.submitted) + Len(ListSet(Ctx, last.i, last.x).submitted) <= 1
         /\ ListSet(Ctx, last.i, last.x).changed = NoEvents

(***************************************************************************)
(* C11: whenever the transport's state is "connecting", a write on a       *)
(* primitive submits no operation, raises no error and leaves what read    *)
(* returns unchanged.  Stated for the bound phase, where a write would     *)
(* otherwise reach the document.                                           *)
(***************************************************************************)
Writes == SingleWrites \cup BulkWrites \cup {"String.clear", "List.push",
                                             "List.removeValue", "List.clear"}

C11_ConnectingDropsWrite ==
  (last.wasLoaded /\ last.op \in Writes /\ connState = "connecting") =>
    /\ last.submitted = <<>>
    /\ last.err = "none"
    /\ Reads(Ctx) = last.pre

(***************************************************************************)
(* C12: an operation whose path is unrelated to a primitive's path         *)
(* (neither a prefix of the other) causes no change event at that          *)
(* primitive, whatever the primitive's kind and the operation's payload.   *)
(***************************************************************************)
\* Paths that are related to none of the three primitives' paths.
ElsewherePaths ==
  {<<Key("other")>>, <<Key("other"), Idx(0)>>, <<Key("cell"), Key("outputs")>>,
   <<Key("cell"), Key("outputs"), Idx(1)>>, <<Idx(0)>>}

\* Every payload of the translation table, and an empty one.
Payloads ==
  {[NoOp EXCEPT !.oi = Str(<<"a">>), !.od = Str(<<>>)],
   [NoOp EXCEPT !.oi = Arr(<<>>)],
   [NoOp EXCEPT !.si = Str(<<"a">>)],
   [NoOp EXCEPT !.sd = Str(<<"a">>)],
   [NoOp EXCEPT !.li = Str(<<"a">>)],
   [NoOp EXCEPT !.ld = Str(<<"a">>)],
   [NoOp EXCEPT !.li = Str(<<"a">>), !.ld = Str(<<"x">>)],
   [NoOp EXCEPT !.lm = Num(1)],
   NoOp}

C13_SetOutOfRange ==
  (/\ last.op = "List.set" /\ last.wasLoaded
   /\ last.x # Undef /\ connState # "connecting"
   /\ (last.i < 0 \/ last.i >= Length(last.pre.List))) =>
    /\ last.submitted = <<>>
    /\ last.err = "none"
    /\ ListArray(Ctx) = last.pre.List

(***************************************************************************)
(* List remove: what was found at the index, and what the call did         *)
(***************************************************************************)
\* The index of the call is within the list as it was before the call.
InRange == 0 <= last.i /\ last.i < Length(last.pre.List)

\* Nothing was removed: undefined returned, nothing submitted or changed.
NotFound ==
  /\ last.ret = Undef
  /\ last.submitted = <<>>
  /\ last.err = "none"
  /\ ListArray(Ctx) = last.pre.List

\* One list-delete of the element at the index, which is returned.
Removed ==
  /\ last.submitted = <<[NoOp EXCEPT !.p = WithIndex(ListPath, last.i),
                                     !.ld = last.pre.List.v[last.i + 1]]>>
  /\ last.ret = last.pre.List.v[last.i + 1]
  /\ last.err = "none"
  /\ ListArray(Ctx) = Arr(WithoutRange(last.pre.List.v, last.i, last.i + 1))

C15_SetUndefinedRejected ==
  (last.op = "List.set" /\ last.x = Undef /\ connState # "connecting") =>
    /\ last.err = "Cannot set an undefined item"
    /\ last.submitted = <<>>
    /\ last.changed = NoEvents
    /\ Reads(Ctx) = last.pre

C15_Witness ==
  /\ last.op = "List.set" /\ last.x = Undef
  /\ last.wasLoaded /\ connState = "connected"
  /\ last.i = 1 /\ Length(last.pre.List) = 2
  /\ last.err = "Cannot set an undefined item"

(***************************************************************************)
(* C16: dispose is idempotent, safe in the local phase, and detaches the   *)
(* primitive: no operation dispatched after it makes a change event reach  *)
(* the primitive's observers (Value, Text and List alike).                 *)
(***************************************************************************)
C16_DisposeDetaches ==
  last.op \in {"Value.dispose", "String.dispose", "List.dispose"} =>
    /\ last.err = "none"
    /\ last.op = "List.dispose" => ListDispose(Ctx) = Ctx
    /\ loaded =>
         \A op \in RemoteOps :
           Apply(data, op).ok =>
             Dispatch([Ctx EXCEPT !.data = Apply(data, op).v], <<op>>, FALSE)
               .changed[PrimOf(last.op)] = <<>>

InsertEvent(start, x) ==
  [type |-> "insert", start |-> Num(start), end |-> Num(start + Length(x)),
   value |-> x]

NewlineAt8 == [NoOp EXCEPT !.p = WithIndex(StringPath, 8), !.si = Newline]

C18_ScenarioA ==
  /\ (last.op = "String.insert" /\ last.i = 0 /\ last.x = Print1) =>
       /\ last.changed.String = <<InsertEvent(0, Print1)>>
       /\ last.pre.String = Str(<<>>) => StringText(Ctx) = Print1
  /\ (last.op = "remote" /\ last.dispatched = <<<<NewlineAt8>>>>) =>
       /\ last.changed.String = <<InsertEvent(8, Newline)>>
       /\ last.pre.String = Print1 => StringText(Ctx) = Str(Print1.v \o Newline.v)

C18_Witness ==
  /\ last.op = "remote"
  /\ last.dispatched = <<<<NewlineAt8>>>>
  /\ last.pre.String = Print1
  /\ last.changed.String = <<InsertEvent(8, Newline)>>
  /\ StringText(Ctx) = Str(Print1.v \o Newline.v)

(***************************************************************************)
(* C19: scenario B.  Each push on the List at ["cells"] of a loaded         *)
(* document appends its item to what array returns; once it holds          *)
(* ["a","b"], the remote operation {p:["cells",0], li:"x", ld:"a"} yields  *)
(* exactly one set event with index 0, old value "a" and new value "x",    *)
(* and array is then ["x","b"].  In general an operation under the list's  *)
(* path with both li and ld is reported as set, with li only as add, with  *)
(* ld only as remove.                                                      *)
(***************************************************************************)
ListAB == Arr(<<Str(<<"a">>), Str(<<"b">>)>>)

ReplaceAByX ==
  [NoOp EXCEPT !.p = WithIndex(ListPath, 0), !.li = Str(<<"x">>), !.ld = Str(<<"a">>)]

LocalWrite(prim, ev, c) ==
  CASE prim = "Value" -> ValueSet(c, ev.newValue)
    [] prim = "String" /\ ev.type = "set" -> StringSetText(c, ev.value)
    [] prim = "String" /\ ev.type = "insert" -> StringInsert(c, ev.start.v, ev.value)
    [] prim = "String" /\ ev.type = "remove" -> StringRemove(c, ev.start.v, ev.end.v)
    [] prim = "List" /\ ev.type = "set" -> ListSet(c, ev.newIndex.v, ev.newValues[1])
    [] prim = "List" /\ ev.type = "add" -> ListInsert(c, ev.newIndex.v, ev.newValues[1])
    [] prim = "List" /\ ev.type = "remove" -> ListRemove(c, ev.oldIndex.v)
    [] prim = "List" /\ ev.type = "move" -> ListMove(c, ev.oldIndex.v, ev.newIndex.v)

C20_RoundTrip ==
  (/\ last.op = "remote" /\ last.err = "none"
   /\ last.dispatched[1][1].li # Undef => last.dispatched[1][1].li # last.dispatched[1][1].ld) =>
    \A prim \in Prims :
      \A k \in 1..Len(last.changed[prim]) :
        LocalWrite(prim, last.changed[prim][k], [Ctx EXCEPT !.data = last.doc]).submitted
          = <<last.dispatched[1][1]>>

(***************************************************************************)
(* C21: isSubpath(p, q) is true exactly when p is no longer than q and     *)
(* p[i] equals q[i] for every index i of p; isSubpath([], q) is true for   *)
(* every q, isSubpath(p, p) for every p, and a string key never equals an  *)
(* integer key ("0" is not 0).  Checked on every pair of the paths below   *)
(* and on the path of every operation dispatched against the paths of the  *)
(* three primitives.                                                       *)
(***************************************************************************)
PathKeys == {Key("cells"), Key("0"), Idx(0)}

\* Every path of at most two of the keys, and the primitives' paths.
SomePaths ==
  {<<>>} \cup {<<a>> : a \in PathKeys} \cup {<<a, b>> : a, b \in PathKeys}
  \cup {ValuePath, StringPath, ListPath, WithIndex(StringPath, 0)}

IsPrefix(p, q) == Len(p) <= Len(q) /\ \A i \in 1..Len(p) : p[i] = q[i]

C21_IsSubpath ==
  /\ last = Idle =>
       \A p, q \in SomePaths :
         /\ isSubpath(p, q) <=> IsPrefix(p, q)
         /\ isSubpath(<<>>, q)
         /\ isSubpath(p, p)
  /\ ~isSubpath(<<Key("0")>>, <<Idx(0)>>) /\ ~isSubpath(<<Idx(0)>>, <<Key("0")>>)
  /\ \A k \in 1..Len(last.dispatched) :
       \A n \in 1..Len(last.dispatched[k]) :
         \A p \in {ValuePath, StringPath, ListPath, _path} :
           isSubpath(p, last.dispatched[k][n].p) <=> IsPrefix(p, last.dispatched[k][n].p)

\* A remote insertion into the text: its path passes the Text's test and
\* fails the Value's and, the list's path being intact, the List's.
C21_Witness ==
  /\ last.op = "remote"
  /\ _path = ListPath
  /\ last.dispatched = <<<<[NoOp EXCEPT !.p = WithIndex(StringPath, 0),
                                        !.si = Str(<<"b">>)]>>>>
  /\ Len(last.changed.String) = 1
  /\ last.changed.Value = <<>> /\ last.changed.List = <<>>
  /\ last.delivered = last.dispatched

(***************************************************************************)
(* C22: on the document's load, a primitive whose path is not in the       *)
(* document submits an object-replace with an empty object for each        *)
(* missing container above it, from the root downwards, each with the path *)
(* of exactly that container, and all of them before the one operation     *)
(* that sets the value at the path; afterwards every prefix of the path    *)
(* resolves in the document.  Stated for the load of an empty document by  *)
(* the three primitives, and for a list constructed at a path of three     *)
(* keys; the operations are read both as they were handed to submitOp and  *)
(* as the document holds them once the handler has returned.               *)
(***************************************************************************)
\* The operations of the call as the document holds them, in order.
Held(c) == [k \in DOMAIN c.delivered |-> [c.delivered[k][1] EXCEPT !.ref = "new"]]

Resolves(tree, path) ==
  \A i \in 0..Len(path) : GetAt(tree, SubSeq(path, 1, i)) # Undef

\* One object-replace per container above the path, then the value.
PreparedOps(path, leaf) ==
  [i \in 1..Len(path) |->
     [NoOp EXCEPT !.p = SubSeq(path, 1, i),
                  !.oi = IF i < Len(path) THEN EmptyObj ELSE leaf]]

DeepPath == <<Key("notebook"), Key("cell"), Key("outputs")>>

C23_ReplaceIsSet ==
  (last.wasLoaded /\ last.op = "remote" /\ OneOpDispatched
   /\ last.dispatched[1][1].oi # Undef) =>
    LET op == last.dispatched[1][1] IN
      /\ op.p = ValuePath =>
           last.changed.Value = <<[oldValue |-> op.od, newValue |-> op.oi]>>
      /\ op.p = StringPath =>
           last.changed.String =
             <<[type |-> "set", start |-> Num(0), end |-> Num(Length(op.oi)),
                value |-> op.oi]>>
      /\ (op.p = ListPath /\ Observed("List")) =>
           /\ Len(last.changed.List) = 1
           /\ last.changed.List[1].type = "set"
           /\ last.changed.List[1].newValues = op.oi.v

(***************************************************************************)
(* C24: for every Text insert/remove event and every List add/remove/set   *)
(* event produced from a dispatched operation, the event's index (the      *)
(* Text's start, the List's index) is the last element of the operation's  *)
(* path, whatever the length of the primitive's path, and a Text event's   *)
(* end is its start plus the length of the text inserted or deleted.       *)
(* Checked on every call that dispatched one operation (the Text at a path *)
(* of two keys, the List at the path it then has), and on the list's       *)
(* handler alone for a list at a path of three keys.                       *)
(***************************************************************************)
\* The index a List event reports.
IndexOf(ev) == IF ev.type = "add" THEN ev.newIndex ELSE ev.oldIndex

IndexIsLastKey(changed, op) ==
  /\ \A k \in 1..Len(changed.String) :
       changed.String[k].type \in {"insert", "remove"} =>
         /\ changed.String[k].start = LastKey(op.p)
         /\ changed.String[k].end
              = Num(changed.String[k].start.v + Length(changed.String[k].value))
  /\ \A k \in 1..Len(changed.List) :
       changed.List[k].type \in {"add", "remove", "set"} =>
         /\ IndexOf(changed.List[k]) = LastKey(op.p)
         /\ changed.List[k].type = "set" => changed.List[k].newIndex = LastKey(op.p)

C24_IndexIsLastKey ==
  /\ OneOpDispatched => IndexIsLastKey(last.changed, last.dispatched[1][1])
  /\ last = Idle =>
       \A i \in Indexes, o \in Payloads :
         LET op == [o EXCEPT !.p = WithIndex(DeepPath, i)] IN
           IndexIsLastKey(ListOnOp([Ctx EXCEPT !.path = DeepPath], <<op>>, FALSE).c.changed,
                          op)

\* A remote insertion at offset 1 of the text, two keys below the root.
C24_Witness ==
  /\ last.op = "remote"
  /\ last.dispatched = <<<<[NoOp EXCEPT !.p = WithIndex(StringPath, 1),
                                        !.si = Str(<<"b">>)]>>>>
  /\ last.changed.String =
       <<[type |-> "insert", start |-> Num(1), end |-> Num(2), value |-> Str(<<"b">>)]>>

(***************************************************************************)
(* C25: when the primitives registered on one document have pairwise       *)
(* unrelated paths, every dispatched operation produces a change event at  *)
(* no more than one of them, whatever the order in which their handlers    *)
(* run.  Stated for the three primitives on every operation a call         *)
(* dispatched, and for the three and a second list, constructed at         *)
(* ["outputs"], on every list operation under that path.                   *)
(***************************************************************************)
SecondListPath == <<Key("outputs")>>

\* The second list's _path: the load left it as it left the first's.
SecondPath == IF _path = ListPath THEN SecondListPath ELSE Front(SecondListPath)

Listeners == {"Value", "String", "List", "List2"}

\* Every order in which the handlers of the listeners S can run.
Orders(S) ==
  {o \in [1..Cardinality(S) -> S] : \A i, j \in DOMAIN o : i # j => o[i] # o[j]}

ThreeOrders == Orders(Prims)
FourOrders == Orders(Listeners)

\* How many of the listeners, their handlers run in turn in the given
\* order on the one batch object, emit a change event.
RECURSIVE Emitters(_, _, _, _)
Emitters(c, ops, order, i) ==
  IF i > Len(order) THEN 0
  ELSE LET  c0 == [c EXCEPT !.changed = NoEvents, !.isDisposed = FALSE,
                            !.path = IF order[i] = "List2" THEN SecondPath ELSE @]
            r == OnOp(IF order[i] = "List2" THEN "List" ELSE order[i], c0, ops, FALSE)
       IN  (IF r.c.changed # NoEvents THEN 1 ELSE 0) + Emitters(c, r.ops, order, i + 1)

SecondListOps ==
  {[o EXCEPT !.p = WithIndex(SecondListPath, 0)] :
     o \in {q \in Payloads : q.li # Undef \/ q.ld # Undef}}

C26_OperationUnchanged ==
  /\ \A k \in DOMAIN last.delivered : last.delivered[k] = last.dispatched[k]
  /\ _path = ListPath

(***************************************************************************)
(* C27: on the document's load, a primitive whose path already holds a     *)
(* value in the document, a falsy one (an empty string, 0) included,       *)
(* submits no operation at or above its path, and the value is still there *)
(* when the load handlers have returned.                                   *)
(***************************************************************************)
C27_LoadKeepsData ==
  last.op = "load" =>
    \A prim \in Prims :
      GetAt(last.x, PathOf(prim)) # Undef =>
        /\ \A k \in DOMAIN last.submitted :
             ~isSubpath(last.submitted[k].p, PathOf(prim))
        /\ GetAt(data, PathOf(prim)) = GetAt(last.x, PathOf(prim))

====
